---- MODULE Spec2Model ----
(***************************************************************************)
(* Model of the request router of rust-hyper-notcgi:                       *)
(*   src/src/handlers/route.rs   Router::new, Router::handle, RouteKey     *)
(*   src/src/handlers.rs         create_handlers, RequestHandler           *)
(* Paths are sequences of one-character strings; the string "FF" stands    *)
(* for a byte that is not valid UTF-8 (PathBuf may hold one, str may not). *)
(***************************************************************************)
EXTENDS Integers, Sequences, FiniteSets, TLC

VARIABLES ctx, routes, idx, local, result, err, installed, reqs

vars == <<ctx, routes, idx, local, result, err, installed, reqs>>

(* ---------------------------- bounds ----------------------------------- *)
MaxRoutes == 3
NumReqs == 2

(* ---------------------------- inputs ----------------------------------- *)
BadByte == "FF"
Methods == {"GET", "PUT"}
Contexts == { <<>>, <<"/">>, <<"/", "a">> }
Suffixes == { <<"x">>, <<"/", "x">>, <<BadByte>> }
\* The requests the transport layer may deliver: a path under the context
\* "/a" under both methods, the same path with a trailing slash, and the
\* path without the context.
HttpRequest(method, path) == [method |-> method, path |-> path]
Requests ==
    { HttpRequest("GET", <<"/", "a", "/", "x">>),
      HttpRequest("PUT", <<"/", "a", "/", "x">>),
      HttpRequest("GET", <<"/", "a", "/", "x", "/">>),
      HttpRequest("GET", <<"/", "x">>) }
Reqs == 1..NumReqs
NOT_FOUND == 404

(* ---------------------------- RouteKey --------------------------------- *)
Owned(s) == [cow |-> "Owned", str |-> s]
Borrowed(s) == [cow |-> "Borrowed", str |-> s]

\* RouteKey { method, path: Cow<str> }
RouteKey(method, path) == [method |-> method, path |-> path]

NoKey == RouteKey("", Owned(<<>>))

\* impl From<&HttpRequest> for RouteKey: the request's method and the
\* borrowed uri().path(), with no normalisation.
RECURSIVE TrimSlash(_)
TrimSlash(p) ==
    IF Len(p) > 1 /\ p[Len(p)] = "/" THEN TrimSlash(SubSeq(p, 1, Len(p) - 1)) ELSE p

RouteKeyFromTrim(http_request) ==
    RouteKey(http_request.method, Borrowed(TrimSlash(http_request.path)))
RouteKeyFrom(http_request) ==
    RouteKey(http_request.method, Borrowed(http_request.path))

\* derive(PartialEq, Eq): fields compared in turn; Cow<str> compares the
\* strings it dereferences to, whichever variant holds them.
RouteKeyEq(k1, k2) == k1.method = k2.method /\ k1.path.str = k2.path.str

HashWidth == 65536
MethodCode(m) == CASE m = "GET" -> 1 [] m = "PUT" -> 2 [] OTHER -> 0
ByteCode(c) == CASE c = "/" -> 47 [] c = "a" -> 97 [] c = "x" -> 120 [] OTHER -> 255

RECURSIVE HashBytes(_, _)
HashBytes(h, s) ==
    IF s = <<>> THEN h
    ELSE HashBytes((h * 31 + ByteCode(Head(s))) % HashWidth, Tail(s))

\* derive(Hash): feeds the method, then the str behind the Cow (its bytes
\* and a 0xff terminator) to the hasher; the Cow variant is not hashed.
RouteKeyHashVariant(k) ==
    (HashBytes(MethodCode(k.method), k.path.str) * 31
        + (IF k.path.cow = "Owned" THEN 255 ELSE 254)) % HashWidth
RouteKeyHash(k) ==
    (HashBytes(MethodCode(k.method), k.path.str) * 31 + 255) % HashWidth

(* ---------------------------- HashMap ---------------------------------- *)
\* The table is a set of entries [key, handler]; handlers are numbered
\* from 1 and 0 is Option::None.
None == 0

MatchingPathOnly(tbl, key) == {e \in tbl : e.key.path.str = key.path.str}
Matching(tbl, key) ==
    {e \in tbl : RouteKeyHash(e.key) = RouteKeyHash(key) /\ RouteKeyEq(e.key, key)}

\* HashMap::get
Get(tbl, key) ==
    IF Matching(tbl, key) = {} THEN None
    ELSE (CHOOSE e \in Matching(tbl, key) : TRUE).handler

\* HashMap::insert: the table after the call (an existing key keeps its
\* entry and gets the new value); the old value is Get before the call.
InsertPathKeyed(tbl, key, handler) ==
    {e \in tbl : e.key.path.str # key.path.str} \cup {[key |-> key, handler |-> handler]}
Insert(tbl, key, handler) ==
    IF Matching(tbl, key) = {}
    THEN tbl \cup {[key |-> key, handler |-> handler]}
    ELSE {IF e \in Matching(tbl, key) THEN [key |-> e.key, handler |-> handler] ELSE e
            : e \in tbl}

(* ---------------------------- Router::new ------------------------------ *)
IsAbsolute(p) == Len(p) > 0 /\ p[1] = "/"

\* PathBuf::from(base).join(path): an absolute path replaces the base; a
\* separator is added only when the base is non-empty and does not end
\* with one.
PathJoinConcat(base, path) == base \o <<"/">> \o path
PathJoin(base, path) ==
    IF IsAbsolute(path) THEN path
    ELSE IF Len(base) > 0 /\ base[Len(base)] # "/" THEN base \o <<"/">> \o path
    ELSE base \o path

\* Path::to_str: None when the path is not valid UTF-8.
ToStr(p) ==
    IF \E i \in 1..Len(p) : p[i] = BadByte
    THEN [some |-> FALSE, val |-> <<>>]
    ELSE [some |-> TRUE, val |-> p]

\* One iteration of the loop of Router::new over the table tbl.
RouteOutcomeOverwrite(tbl, route, c) ==
    LET uri_pathbuf == PathJoin(c, route.path_suffix)
        path == ToStr(uri_pathbuf)
        key == RouteKey(route.method, Owned(path.val))
    IN  IF ~path.some
        THEN [kind |-> "path_error", table |-> tbl, key |-> NoKey, pathbuf |-> uri_pathbuf]
        ELSE [kind |-> "inserted", table |-> Insert(tbl, key, route.handler),
                   key |-> key, pathbuf |-> uri_pathbuf]
RouteOutcome(tbl, route, c) ==
    LET uri_pathbuf == PathJoin(c, route.path_suffix)
        path == ToStr(uri_pathbuf)
        key == RouteKey(route.method, Owned(path.val))
    IN  IF ~path.some
        THEN [kind |-> "path_error", table |-> tbl, key |-> NoKey, pathbuf |-> uri_pathbuf]
        ELSE IF Get(tbl, key) # None
        THEN [kind |-> "collision", table |-> Insert(tbl, key, route.handler),
                   key |-> key, pathbuf |-> uri_pathbuf]
        ELSE [kind |-> "inserted", table |-> Insert(tbl, key, route.handler),
                   key |-> key, pathbuf |-> uri_pathbuf]

\* Router::new as a function of its inputs: the loop run to its end.
RECURSIVE RouterNewFrom(_, _, _)
RouterNewFrom(tbl, rs, c) ==
    IF rs = <<>> THEN [kind |-> "ok", table |-> tbl, key |-> NoKey, pathbuf |-> <<>>]
    ELSE LET o == RouteOutcome(tbl, Head(rs), c)
         IN  IF o.kind = "inserted" THEN RouterNewFrom(o.table, Tail(rs), c) ELSE o

RouterNew(rs, c) == RouterNewFrom({}, rs, c)

(* ---------------------------- Router::handle --------------------------- *)
\* utils::build_status_code_response: a response with that status only.
BuildStatusCodeResponse(status) == [status |-> status, headers |-> "none", body |-> <<>>]

\* What a delegated handler may answer: handlers are opaque, so any of a
\* few responses, a 404 of its own among them.
HandlerResponses(h, req) ==
    { [status |-> 200, headers |-> "json", body |-> <<h, req.method, req.path>>],
      [status |-> 404, headers |-> "none", body |-> <<>>] }

\* The match of Router::handle: 404 for None, the handler's own response
\* otherwise.
HandleResultAlter(handler_option, handler_response) ==
    IF handler_option = None THEN BuildStatusCodeResponse(NOT_FOUND)
    ELSE [handler_response EXCEPT !.headers = "none"]
HandleResult(handler_option, handler_response) ==
    IF handler_option = None THEN BuildStatusCodeResponse(NOT_FOUND)
    ELSE handler_response

NoResponse == [status |-> 0, headers |-> "none", body |-> <<>>]
NoRouter == {[key |-> NoKey, handler |-> None]}
IdleReq == [pc |-> "idle", method |-> "", path |-> <<>>, invoked |-> <<>>,
            handler_response |-> NoResponse, response |-> NoResponse, responses |-> 0]

(* ---------------------------- state machine ---------------------------- *)
RouteInfo(method, path_suffix, handler) ==
    [method |-> method, path_suffix |-> path_suffix, handler |-> handler]

\* create_handlers collects the registrations; every registration owns its
\* own handler, numbered here by its place in the list.
RouteLists ==
    UNION { { [i \in 1..n |-> RouteInfo(f[i][1], f[i][2], i)] :
                f \in [1..n -> Methods \X Suffixes] } : n \in 0..MaxRoutes }

Init ==
    /\ ctx \in Contexts
    /\ routes \in RouteLists
    /\ idx = 1
    /\ local = {}
    /\ result = "building"
    /\ err = [kind |-> "none", key |-> NoKey, pathbuf |-> <<>>]
    /\ installed = NoRouter
    /\ reqs = [r \in Reqs |-> IdleReq]

Building == result = "building" /\ idx <= Len(routes)

\* uri_pathbuf.to_str() fails: the ? operator returns the error.
NewPathError ==
    /\ Building
    /\ LET o == RouteOutcome(local, routes[idx], ctx)
       IN  /\ o.kind = "path_error"
           /\ result' = "path_error"
           /\ err' = [kind |-> "path_error", key |-> NoKey, pathbuf |-> o.pathbuf]
    /\ UNCHANGED <<ctx, routes, idx, local, installed, reqs>>

\* insert returned None: next registration.
NewInsert ==
    /\ Building
    /\ LET o == RouteOutcome(local, routes[idx], ctx)
       IN  /\ o.kind = "inserted"
           /\ local' = o.table
    /\ idx' = idx + 1
    /\ UNCHANGED <<ctx, routes, result, err, installed, reqs>>

NewCollisionContinue ==
    /\ Building
    /\ LET o == RouteOutcome(local, routes[idx], ctx)
       IN  /\ o.kind = "collision"
           /\ local' = o.table
    /\ idx' = idx + 1
    /\ UNCHANGED <<ctx, routes, result, err, installed, reqs>>

\* insert returned Some(old): bail with the key.
NewCollision ==
    /\ Building
    /\ LET o == RouteOutcome(local, routes[idx], ctx)
       IN  /\ o.kind = "collision"
           /\ local' = o.table
           /\ result' = "collision"
           /\ err' = [kind |-> "collision", key |-> o.key, pathbuf |-> o.pathbuf]
    /\ UNCHANGED <<ctx, routes, idx, installed, reqs>>

\* Ok(router), boxed by create_handlers.
NewReturn ==
    /\ result = "building"
    /\ idx > Len(routes)
    /\ result' = "ok"
    /\ installed' = local
    /\ UNCHANGED <<ctx, routes, idx, local, err, reqs>>

\* The transport layer hands a request to the installed router; requests
\* are numbered in the order of their arrival.
Receive(r) ==
    /\ installed # NoRouter
    /\ reqs[r].pc = "idle"
    /\ \A q \in Reqs : q < r => reqs[q].pc # "idle"
    /\ \E q \in Requests :
         reqs' = [reqs EXCEPT ![r] = [IdleReq EXCEPT !.pc = "received",
                                                     !.method = q.method, !.path = q.path]]
    /\ UNCHANGED <<ctx, routes, idx, local, result, err, installed>>

HandleNotFoundFail(r) ==
    /\ reqs[r].pc = "received"
    /\ Get(installed, RouteKeyFrom(reqs[r])) = None
    /\ reqs' = [reqs EXCEPT ![r].pc = "failed"]
    /\ UNCHANGED <<ctx, routes, idx, local, result, err, installed>>

\* handler_option = None: the 404 is built and returned.
HandleNotFound(r) ==
    /\ reqs[r].pc = "received"
    /\ Get(installed, RouteKeyFrom(reqs[r])) = None
    /\ reqs' = [reqs EXCEPT ![r].pc = "done",
                            ![r].response = HandleResult(None, NoResponse),
                            ![r].responses = @ + 1]
    /\ UNCHANGED <<ctx, routes, idx, local, result, err, installed>>

HandleDelegateTake(r) ==
    /\ reqs[r].pc = "received"
    /\ Get(installed, RouteKeyFrom(reqs[r])) # None
    /\ reqs' = [reqs EXCEPT ![r].pc = "awaiting",
                            ![r].invoked = Append(@, Get(installed, RouteKeyFrom(reqs[r])))]
    /\ installed' = installed \ Matching(installed, RouteKeyFrom(reqs[r]))
    /\ UNCHANGED <<ctx, routes, idx, local, result, err>>

\* handler_option = Some(handler): handler.handle(&request) is called.
HandleDelegate(r) ==
    /\ reqs[r].pc = "received"
    /\ Get(installed, RouteKeyFrom(reqs[r])) # None
    /\ reqs' = [reqs EXCEPT ![r].pc = "awaiting",
                            ![r].invoked = Append(@, Get(installed, RouteKeyFrom(reqs[r])))]
    /\ UNCHANGED <<ctx, routes, idx, local, result, err, installed>>

\* The awaited handler completes and its response is the value of handle.
HandlerReturn(r) ==
    /\ reqs[r].pc = "awaiting"
    /\ \E resp \in HandlerResponses(reqs[r].invoked[1], reqs[r]) :
         reqs' = [reqs EXCEPT ![r].pc = "done",
                              ![r].handler_response = resp,
                              ![r].response = HandleResult(reqs[r].invoked[1], resp),
                              ![r].responses = @ + 1]
    /\ UNCHANGED <<ctx, routes, idx, local, result, err, installed>>

Next ==
    \/ NewPathError
    \/ NewInsert
    \/ NewCollision
    \/ NewReturn
    \/ \E r \in Reqs : Receive(r)
    \/ \E r \in Reqs : HandleNotFound(r)
    \/ \E r \in Reqs : HandleDelegate(r)
    \/ \E r \in Reqs : HandlerReturn(r)

Spec == Init /\ [][Next]_vars

\* The executor keeps polling the dispatches in flight, and a delegated
\* handler is taken to complete.
Dispatch ==
    \E r \in Reqs : HandleNotFound(r) \/ HandleDelegate(r) \/ HandlerReturn(r)

LiveSpec == Spec /\ WF_vars(Dispatch)

(* ---------------------------- properties ------------------------------- *)
ComposedPath(i) == PathJoin(ctx, routes[i].path_suffix)
ComposedKey(i) == RouteKey(routes[i].method, Owned(ComposedPath(i)))
AllValid == \A i \in 1..Len(routes) : ToStr(ComposedPath(i)).some
Dup == \E i, j \in 1..Len(routes) :
          i < j /\ routes[i].method = routes[j].method /\ ComposedPath(i) = ComposedPath(j)
Finished == result # "building"

\* The entries of a table registered for exactly this method and path.
EntriesFor(tbl, method, path) ==
    {e \in tbl : e.key.method = method /\ e.key.path.str = path}
Registered(r) == EntriesFor(installed, reqs[r].method, reqs[r].path) # {}
PathKnown(r) == \E e \in installed : e.key.path.str = reqs[r].path
Dispatched(r) == reqs[r].pc \in {"awaiting", "done"}

\* C1 as stated: once Router::new has finished, two registrations with the
\* same method and composed path give a collision error, and otherwise
\* construction succeeds.
C1_AsStated ==
    Finished => /\ (Dup => result = "collision")
                /\ (~Dup => result = "ok")

\* C1 amended: when every composed path is valid text, Router::new fails
\* with a collision error if two registrations have the same method and
\* composed path and succeeds otherwise; a composed path that is not valid
\* text makes construction fail whatever the pairs are.
C1_Uniqueness ==
    Finished => /\ (AllValid /\ Dup => result = "collision")
                /\ (AllValid /\ ~Dup => result = "ok")
                /\ (~AllValid => result # "ok")

C1_Witness ==
    /\ result = "collision"
    /\ AllValid
    /\ Len(routes) = 2
    /\ routes[1].path_suffix # routes[2].path_suffix

\* C2: the path stored for every registration is the context prefix, one
\* "/" and the suffix.
C2_PrefixComposition ==
    \A e \in local :
        e.handler <= Len(routes) =>
            e.key.path.str = ctx \o <<"/">> \o routes[e.handler].path_suffix

\* C3: a request whose method and path are those of a table key has that
\* key's handler, and no other, invoked exactly once, and the response
\* returned is the response that handler produced.
C3_DelegationTransparency ==
    \A r \in Reqs :
        (reqs[r].pc # "idle" /\ Registered(r)) =>
            /\ reqs[r].pc = "received" => reqs[r].invoked = <<>>
            /\ Dispatched(r) =>
                 /\ Len(reqs[r].invoked) = 1
                 /\ EntriesFor(installed, reqs[r].method, reqs[r].path)
                        = {e \in installed : e.handler = reqs[r].invoked[1]}
            /\ reqs[r].pc = "done" =>
                 /\ reqs[r].handler_response \in HandlerResponses(reqs[r].invoked[1], reqs[r])
                 /\ reqs[r].response = reqs[r].handler_response

C3_Witness ==
    \E r \in Reqs :
        /\ reqs[r].pc = "done"
        /\ Registered(r)
        /\ reqs[r].response.status = 200
        /\ Cardinality(installed) >= 2

\* C4: a request whose path is not byte-equal to the path of a table key
\* with its method gets the 404 response and no handler is invoked.
C4_ExactMatch ==
    \A r \in Reqs :
        (reqs[r].pc # "idle" /\ ~Registered(r)) =>
            /\ reqs[r].pc \in {"received", "done"}
            /\ reqs[r].invoked = <<>>
            /\ reqs[r].pc = "done" => reqs[r].response = BuildStatusCodeResponse(NOT_FOUND)

\* a path that differs from a registered one by a trailing slash only
C4_Witness ==
    \E r \in Reqs :
        /\ reqs[r].pc = "done"
        /\ Len(reqs[r].path) > 1
        /\ EntriesFor(installed, reqs[r].method,
                      SubSeq(reqs[r].path, 1, Len(reqs[r].path) - 1)) # {}
        /\ reqs[r].response.status = NOT_FOUND
        /\ reqs[r].invoked = <<>>

\* C5: a request whose path is registered, but not under its method, gets
\* 404, the very response of a request for a path registered under no
\* method, and no handler is invoked.
MethodMismatch(r) == reqs[r].pc # "idle" /\ PathKnown(r) /\ ~Registered(r)
UnknownPath(r) == reqs[r].pc # "idle" /\ ~PathKnown(r)

C5_MethodSensitivity ==
    /\ \A r \in Reqs :
         MethodMismatch(r) =>
            /\ reqs[r].invoked = <<>>
            /\ reqs[r].pc = "done" => reqs[r].response.status = NOT_FOUND
    /\ \A r1, r2 \in Reqs :
         (MethodMismatch(r1) /\ UnknownPath(r2)
            /\ reqs[r1].pc = "done" /\ reqs[r2].pc = "done")
         => reqs[r1].response = reqs[r2].response

C5_Witness ==
    \E r1, r2 \in Reqs :
        /\ MethodMismatch(r1) /\ reqs[r1].pc = "done"
        /\ UnknownPath(r2) /\ reqs[r2].pc = "done"
        /\ reqs[r1].response.status = NOT_FOUND

\* C6: on a collision Router::new stops at that registration with an error
\* naming its method and path, no later registration is processed, no
\* handler is replaced without that error, and no Router is returned.
CollisionState ==
    result = "collision" =>
        /\ err.kind = "collision"
        /\ err.key = ComposedKey(idx)
        /\ \E j \in 1..(idx - 1) : ComposedKey(j) = ComposedKey(idx)
        /\ \A e \in local : e.handler <= idx
        /\ installed = NoRouter
        /\ \A r \in Reqs : reqs[r].pc = "idle"

NoSilentOverwrite ==
    (\E e \in local : \E f \in local' : f.key = e.key /\ f.handler # e.handler)
        => (result = "building" /\ result' = "collision")

StopsAtCollision ==
    result = "collision" => (idx' = idx /\ local' = local /\ result' = result)

C6_CollisionHandling ==
    /\ []CollisionState
    /\ [][NoSilentOverwrite /\ StopsAtCollision]_vars

C6_Witness ==
    /\ result = "collision"
    /\ idx < Len(routes)

\* C7: once Router::new has returned, no dispatch changes the table, and
\* requests with the same method and path have the same outcome whatever
\* else is or was being dispatched.
TableReadOnly == installed # NoRouter => installed' = installed

Independent ==
    \A r1, r2 \in Reqs :
        (Dispatched(r1) /\ Dispatched(r2)
            /\ reqs[r1].method = reqs[r2].method /\ reqs[r1].path = reqs[r2].path)
        => reqs[r1].invoked = reqs[r2].invoked
OutcomeByTable ==
    \A r \in Reqs :
        reqs[r].pc = "done" =>
            reqs[r].invoked =
                (IF Registered(r)
                 THEN <<(CHOOSE e \in EntriesFor(installed, reqs[r].method, reqs[r].path)
                            : TRUE).handler>>
                 ELSE <<>>)

C7_ReadOnlyTable ==
    /\ [][TableReadOnly]_vars
    /\ [](Independent /\ OutcomeByTable)

C7_Witness ==
    \E r1, r2 \in Reqs :
        /\ r1 # r2
        /\ reqs[r1].pc = "done" /\ reqs[r2].pc = "awaiting"
        /\ reqs[r1].method = reqs[r2].method /\ reqs[r1].path = reqs[r2].path

\* C8: two route keys are equal exactly when their methods and their path
\* strings are, owned or borrowed; equal keys hash alike; and the key of a
\* request finds the entry inserted under the same method and path.
KeysInPlay ==
    {e.key : e \in local \cup (installed \ NoRouter)}
        \cup {RouteKeyFrom(reqs[r]) : r \in {q \in Reqs : reqs[q].pc # "idle"}}

C8_KeyEquivalence ==
    /\ \A k1, k2 \in KeysInPlay :
         /\ RouteKeyEq(k1, k2) <=> (k1.method = k2.method /\ k1.path.str = k2.path.str)
         /\ RouteKeyEq(k1, k2) => RouteKeyHash(k1) = RouteKeyHash(k2)
    /\ \A r \in Reqs : \A e \in installed \ NoRouter :
         (reqs[r].pc # "idle" /\ e.key.method = reqs[r].method
            /\ e.key.path.str = reqs[r].path)
         => Get(installed, RouteKeyFrom(reqs[r])) = e.handler

C8_Witness ==
    \E r \in Reqs : \E e \in installed \ NoRouter :
        /\ reqs[r].pc = "done"
        /\ e.key.path.cow = "Owned"
        /\ RouteKeyFrom(reqs[r]).path.cow = "Borrowed"
        /\ RouteKeyEq(e.key, RouteKeyFrom(reqs[r]))
        /\ reqs[r].invoked = <<e.handler>>

\* C9: every dispatch completes with exactly one response, the handler's
\* when the key matches and the 404 otherwise, and has no other outcome.
\* A dispatch in flight stays the same dispatch until it is done
\* (KeepsGoing) and time and again no dispatch is in flight (Quiescent), so
\* each one is eventually done.
OneResponse ==
    \A r \in Reqs :
        /\ reqs[r].pc \in {"idle", "received", "awaiting", "done"}
        /\ reqs[r].pc # "done" => reqs[r].responses = 0
        /\ reqs[r].pc = "done" =>
             /\ reqs[r].responses = 1
             /\ reqs[r].response =
                  (IF reqs[r].invoked = <<>> THEN BuildStatusCodeResponse(NOT_FOUND)
                   ELSE reqs[r].handler_response)

InFlight(r) == reqs[r].pc \notin {"idle", "done"}

KeepsGoing ==
    \A r \in Reqs :
        InFlight(r) =>
            /\ reqs'[r].pc \in {"received", "awaiting", "done"}
            /\ reqs'[r].method = reqs[r].method
            /\ reqs'[r].path = reqs[r].path

Quiescent == \A r \in Reqs : ~InFlight(r)

C9_AlwaysResponds ==
    /\ []OneResponse
    /\ [][KeepsGoing]_vars
    /\ []<>Quiescent

C9_Witness ==
    \E r1, r2 \in Reqs :
        /\ reqs[r1].pc = "done" /\ reqs[r1].invoked = <<>> /\ reqs[r1].responses = 1
        /\ reqs[r2].pc = "done" /\ reqs[r2].invoked # <<>> /\ reqs[r2].responses = 1

\* C10: when Router::new succeeds the table has exactly one entry per
\* registration and no other, each under the key (method, join(prefix,
\* suffix)) of its registration with that registration's handler, and the
\* same mapping results from the registrations in any order.
Reorderings(s) ==
    {[i \in 1..Len(s) |-> s[f[i]]] :
        f \in {g \in [1..Len(s) -> 1..Len(s)] : \A i, j \in 1..Len(s) : g[i] = g[j] => i = j}}

Complete ==
    /\ installed = {[key |-> ComposedKey(i), handler |-> i] : i \in 1..Len(routes)}
    /\ Cardinality(installed) = Len(routes)
    /\ \A p \in Reorderings(routes) :
         RouterNew(p, ctx).kind = "ok" /\ RouterNew(p, ctx).table = installed

C10_Completeness == [][(result = "building" /\ result' = "ok") => Complete']_vars

C10_Witness ==
    /\ result = "ok"
    /\ Len(routes) >= 3
====
